---- MODULE Spec2Model ----
(***************************************************************************)
(* Model of src/dividend_parser.py (class DividendParser): the rows that   *)
(* parse_stock_details extracts, clean_data, and forecast_dividends with   *)
(* its activity gate, its chain of strategies and the final merge.         *)
(*                                                                         *)
(* Conventions.  Amounts are integers in hundredths (kopecks), so          *)
(* round(x, 2) is a rounding to an integer; binary floating-point error is *)
(* not modelled.  A calendar date is <<year, month, day>>.  A pandas       *)
(* DataFrame is the sequence of its rows in index order.  Python's None    *)
(* and pandas' missing markers NaN / NaT are distinct values, because the  *)
(* code tests `is not None`, which NaN and NaT pass.                       *)
(***************************************************************************)
EXTENDS Integers, Sequences, FiniteSets, TLC

VARIABLES
    detailed_dividends, \* self.detailed_dividends: the extracted rows
    next_row,           \* position of parse_stock_details in the pages' rows
    clean_df,           \* self.clean_df
    pc,                 \* position of main / forecast_dividends
    years,              \* argument years of forecast_dividends
    history_years,      \* argument history_years of forecast_dividends
    todo,               \* tickers df.groupby('ticker') has still to yield
    ticker_forecast_count,
    forecast_data,      \* the list forecast_data
    result_df,          \* self.result_df
    ret,                \* what forecast_dividends returned
    clamp_in,           \* argument of the date construction checked alone
    clamp_out           \* its result

vars == <<detailed_dividends, next_row, clean_df, pc, years, history_years,
          todo, ticker_forecast_count, forecast_data, result_df, ret,
          clamp_in, clamp_out>>

----------------------------------------------------------------------------
(* Bounds of the model *)

\* most rows extracted in one run
MaxRecords == 4
\* largest forecasting horizon (argument years)
MaxYears == 2
\* how many future years the date construction is checked for on its own
MaxClampSpan == 8

----------------------------------------------------------------------------
(* Values *)

\* Python None in a cell
None == 0
\* float NaN: what a None becomes in a numeric column that also holds numbers
NaN == -1
\* record_date None (no datetime at all in the column)
NoDate == <<0, 0, 0>>
\* pandas NaT: what a None becomes in a datetime64 column
NaT == <<-1, -1, -1>>

\* self.result_df before forecast_dividends has assigned it: __init__ does
\* not create the attribute, and reading it raises AttributeError
Unassigned == <<[no_attribute |-> TRUE]>>

\* datetime.now(), fixed for a run
CurrentYear == 2024
CurrentMonth == 11
CurrentDay == 1
Now == <<CurrentYear, CurrentMonth, CurrentDay>>

\* the values of forecast_strategy
ACTUAL_LABEL == "0 - actual"
SITE_LABEL == "1 - site forecast"
QUARTERLY == "3.1 - quarterly-data"
DATES == "3.2 - payment-dates"
ANNUAL == "3.3 - annual-data"
EMERGENCY == "3.4 - emergency"
INACTIVE == "3.4 - inactive-company"

\* the tickers of stock_list and their alphabetical rank (str comparison)
TickerRank(t) == IF t = "ABC" THEN 1 ELSE 2

IsLeap(y) == y % 4 = 0 /\ (y % 100 # 0 \/ y % 400 = 0)

\* datetime(y, m, d) succeeds
DaysInMonth(y, m) ==
    IF m = 2 THEN (IF IsLeap(y) THEN 29 ELSE 28)
    ELSE IF m \in {4, 6, 9, 11} THEN 30 ELSE 31

ValidDate(y, m, d) == m \in 1..12 /\ d \in 1..DaysInMonth(y, m)

\* a < b on datetimes
DateLess(a, b) ==
    \/ a[1] < b[1]
    \/ a[1] = b[1] /\ a[2] < b[2]
    \/ a[1] = b[1] /\ a[2] = b[2] /\ a[3] < b[3]

\* isinstance(x, datetime) and pd.notnull(x): a real date
IsDated(d) == d # NoDate /\ d # NaT

QuarterOfMonth(m) == ((m - 1) \div 3) + 1

Front(s) == SubSeq(s, 1, Len(s) - 1)

Range(s) == {s[i] : i \in 1..Len(s)}

----------------------------------------------------------------------------
(* parse_stock_details: the four places that append to detailed_dividends *)

\* a row of the annual table: year cell (None when no 4-digit year), amount,
\* whether the year cell says it is a forecast
AnnualRow(ticker, year, amount, says_forecast) ==
    [ticker |-> ticker,
     record_date |-> IF year # None THEN <<year, 6, 30>> ELSE NoDate,
     dividend_value |-> amount,
     forecast_type |-> IF says_forecast \/ year = None THEN 1 ELSE 0,
     year |-> year,
     quarter |-> None]

\* a row of the dividend table: always dated
DividendRow(ticker, date, amount, says_forecast) ==
    [ticker |-> ticker,
     record_date |-> date,
     dividend_value |-> amount,
     forecast_type |-> IF says_forecast \/ DateLess(Now, date) THEN 1 ELSE 0,
     year |-> date[1],
     quarter |-> QuarterOfMonth(date[2])]

\* a row of any other table: a date or only a year found in some cell
UniversalRow(ticker, date, cell_year, amount, says_forecast) ==
    [ticker |-> ticker,
     record_date |-> date,
     dividend_value |-> amount,
     forecast_type |-> IF says_forecast \/ (date # NoDate /\ DateLess(Now, date))
                       THEN 1 ELSE 0,
     year |-> IF date # NoDate THEN date[1] ELSE cell_year,
     quarter |-> IF date # NoDate THEN QuarterOfMonth(date[2]) ELSE None]

\* a row of the main page's table: year and quarter come from the period text
\* when it has them, else from the date
MainTableRow(ticker, date, period_year, period_quarter, amount, says_forecast) ==
    [ticker |-> ticker,
     record_date |-> date,
     dividend_value |-> amount,
     forecast_type |-> IF says_forecast THEN 1
                       ELSE IF date # NoDate /\ DateLess(Now, date) THEN 1
                       ELSE IF date = NoDate /\ amount > 0 THEN 1
                       ELSE 0,
     year |-> IF period_year # None THEN period_year
              ELSE IF date # NoDate THEN date[1] ELSE None,
     quarter |-> IF period_quarter # None THEN period_quarter
                 ELSE IF date # NoDate THEN QuarterOfMonth(date[2]) ELSE None]

\* The rows the site's pages hold, in the order parse_stock_details meets
\* them: stock_list order (XYZ before ABC), then table by table, newest row
\* first.  A run extracts a subsequence of them.  A dated row whose year and
\* quarter are those of its date is the same record whether the dividend
\* table of the stock's page or the main page's table gives it.
PageRows == <<
    UniversalRow("XYZ", NoDate, 2019, 300, FALSE),
    AnnualRow("XYZ", None, 200, TRUE),
    UniversalRow("XYZ", NoDate, 2023, 200, FALSE),
    DividendRow("ABC", <<2024, 3, 20>>, 600, FALSE),
    DividendRow("ABC", <<2023, 3, 10>>, 700, FALSE),
    DividendRow("ABC", <<2022, 3, 15>>, 500, FALSE),
    DividendRow("ABC", <<2024, 2, 29>>, 650, FALSE),
    DividendRow("ABC", <<2024, 5, 10>>, 400, FALSE),
    AnnualRow("ABC", 2023, 1000, FALSE),
    AnnualRow("ABC", 2024, 1200, FALSE),
    UniversalRow("ABC", NoDate, 2023, 350, FALSE),
    MainTableRow("ABC", <<2025, 3, 25>>, 2025, 1, 1250, FALSE),
    MainTableRow("ABC", NoDate, 2026, 1, 1300, FALSE),
    MainTableRow("ABC", <<2024, 3, 20>>, 2023, 4, 600, FALSE)
>>

\* the rows of PageRows that only a table of the stock's page can give (no
\* quarter), and those that only the main page's table can give (a quarter
\* without a date, a year that is not the date's)
PageTableOnly == {1, 2, 3, 9, 10, 11}
MainTableOnly == {13, 14}

\* the main page's table is read for a stock only when its page has no
\* dividend table, so one run never holds both kinds of rows for one ticker
TablesAgree(rows, i) ==
    i \in MainTableOnly =>
        \A j \in PageTableOnly :
            PageRows[j].ticker = PageRows[i].ticker
            => PageRows[j] \notin Range(rows)

----------------------------------------------------------------------------
(* clean_data *)

\* pd.DataFrame(self.detailed_dividends): a None in a column that also holds
\* numbers becomes NaN and the whole column float64; a None in a column that
\* also holds datetimes becomes NaT.  A column of Nones only keeps them.
\* year_float records the dtype of column year: a float prints as "2025.0".
DataFrame(rows) ==
    LET some_year == \E i \in 1..Len(rows) : rows[i].year # None
        none_year == \E i \in 1..Len(rows) : rows[i].year = None
        some_quarter == \E i \in 1..Len(rows) : rows[i].quarter # None
        some_date == \E i \in 1..Len(rows) : rows[i].record_date # NoDate
    IN  [i \in 1..Len(rows) |->
            [ticker |-> rows[i].ticker,
             record_date |-> IF rows[i].record_date = NoDate /\ some_date
                             THEN NaT ELSE rows[i].record_date,
             dividend_value |-> rows[i].dividend_value,
             forecast_type |-> rows[i].forecast_type,
             year |-> IF rows[i].year = None /\ some_year
                      THEN NaN ELSE rows[i].year,
             year_float |-> some_year /\ none_year,
             quarter |-> IF rows[i].quarter = None /\ some_quarter
                         THEN NaN ELSE rows[i].quarter]]

\* x.strftime('%d.%m.%Y') if pd.notnull(x) and isinstance(x, datetime)
\* else "no data": day, month, year in that order; <<0, 0, 0>> is "no data"
FormatDate(d) == IF IsDated(d) THEN <<d[3], d[2], d[1]>> ELSE <<0, 0, 0>>

\* x.month if pd.notnull(x) and isinstance(x, datetime) else None
MonthOf(d) == IF IsDated(d) THEN d[2] ELSE None

WithDerivedColumns(df) ==
    [i \in 1..Len(df) |->
        [ticker |-> df[i].ticker,
         record_date |-> df[i].record_date,
         record_date_str |-> FormatDate(df[i].record_date),
         dividend_value |-> df[i].dividend_value,
         forecast_type |-> df[i].forecast_type,
         year |-> df[i].year,
         year_float |-> df[i].year_float,
         quarter |-> df[i].quarter,
         month |-> MonthOf(df[i].record_date)]]

DedupKey(r) == <<r.ticker, r.record_date_str, r.dividend_value>>

\* drop_duplicates with keep='last': a row stays unless a later row has its
\* key
RECURSIVE DropDuplicatesKeepLast(_)
DropDuplicatesKeepLast(df) ==
    IF df = <<>> THEN <<>>
    ELSE LET rest == DropDuplicatesKeepLast(Tail(df))
         IN  IF \E i \in 2..Len(df) : DedupKey(df[i]) = DedupKey(df[1])
             THEN rest
             ELSE <<df[1]>> \o rest

\* df.drop_duplicates(subset=[ticker, record_date_str, dividend_value],
\* keep='first'): a row stays unless an earlier row has its key
RECURSIVE DropDuplicates(_)
DropDuplicates(df) ==
    IF df = <<>> THEN <<>>
    ELSE LET kept == DropDuplicates(Front(df))
             r == df[Len(df)]
         IN  IF \E i \in 1..(Len(df) - 1) : DedupKey(df[i]) = DedupKey(r)
             THEN kept
             ELSE Append(kept, r)

CleanDataFrame(rows) == DropDuplicates(WithDerivedColumns(DataFrame(rows)))

----------------------------------------------------------------------------
(* forecast_dividends: the view of one ticker's rows (the loop over        *)
(* group.iterrows())                                                       *)

\* the rows of one group of df.groupby('ticker'), in df order
Group(df, ticker) == SelectSeq(df, LAMBDA r : r.ticker = ticker)

\* the distinct tickers in the order groupby yields them: ascending
RECURSIVE SortedTickers(_)
SortedTickers(S) ==
    IF S = {} THEN <<>>
    ELSE LET t == CHOOSE x \in S : \A y \in S : TickerRank(x) <= TickerRank(y)
         IN  <<t>> \o SortedTickers(S \ {t})

GroupKeys(df) == SortedTickers({df[i].ticker : i \in 1..Len(df)})

\* forecast_type == 0 and row['year'] is not None (NaN is not None)
IsActualRow(r) == r.forecast_type = 0 /\ r.year # None

\* all_payments
AllPayments(group) ==
    SelectSeq(group, LAMBDA r : IsActualRow(r) /\ r.dividend_value > 0)

RECURSIVE SumAmounts(_)
SumAmounts(rows) ==
    IF rows = <<>> THEN 0
    ELSE rows[1].dividend_value + SumAmounts(Tail(rows))

\* recent_activity_year
RecentActivityYear(hy) == CurrentYear - hy

\* recent_payments_sum (NaN >= n is False)
RecentPaymentsSumAll(group, hy) == SumAmounts(AllPayments(group))

RecentPaymentsSumStrictBound(group, hy) ==
    SumAmounts(SelectSeq(AllPayments(group),
                         LAMBDA r : r.year # NaN /\ r.year > RecentActivityYear(hy)))

RecentPaymentsSum(group, hy) ==
    SumAmounts(SelectSeq(AllPayments(group),
                         LAMBDA r : r.year # NaN /\ r.year >= RecentActivityYear(hy)))

\* dict[key].append(row), the dict kept as the sequence of its entries in
\* insertion order.  A NaN key is never found again (nan != nan, and every
\* row carries its own float object), so each NaN makes an entry of its own.
AddToKey(entries, key, row, is_nan) ==
    IF ~is_nan /\ \E i \in 1..Len(entries) : entries[i].key = key
    THEN [i \in 1..Len(entries) |->
            IF entries[i].key = key
            THEN [key |-> key, rows |-> Append(entries[i].rows, row)]
            ELSE entries[i]]
    ELSE Append(entries, [key |-> key, rows |-> <<row>>])

\* ticker_quarters: row['quarter'] is not None lets NaN through
RECURSIVE TickerQuarters(_)
TickerQuarters(group) ==
    IF group = <<>> THEN <<>>
    ELSE LET prev == TickerQuarters(Front(group))
             r == group[Len(group)]
         IN  IF IsActualRow(r) /\ r.quarter # None
             THEN AddToKey(prev, r.quarter, r, r.quarter = NaN)
             ELSE prev

\* (record_date.month, record_date.day); NaT passes both tests of the code and
\* its month and day are the one object np.nan, so all NaT rows share a key
MonthDayKey(d) == IF d = NaT THEN <<NaN, NaN>> ELSE <<d[2], d[3]>>

\* annual_payment_dates
RECURSIVE AnnualPaymentDates(_)
AnnualPaymentDates(group) ==
    IF group = <<>> THEN <<>>
    ELSE LET prev == AnnualPaymentDates(Front(group))
             r == group[Len(group)]
         IN  IF IsActualRow(r) /\ r.dividend_value > 0 /\ r.record_date # NoDate
             THEN AddToKey(prev, MonthDayKey(r.record_date), r, FALSE)
             ELSE prev

\* site_forecasts is keyed by the text f"{year}-{quarter}" and looked up by
\* f"{future_year}-{quarter}" with future_year an int: a year from a float64
\* column prints as "2025.0" and never equals "2025"; the quarter is printed
\* from the same column on both sides ("nan" equals "nan")
SiteKeyMatches(r, future_year, quarter) ==
    /\ r.forecast_type = 1
    /\ r.year # None /\ r.quarter # None
    /\ ~r.year_float
    /\ r.year = future_year
    /\ r.quarter = quarter

HasSiteForecast(group, future_year, quarter) ==
    \E i \in 1..Len(group) : SiteKeyMatches(group[i], future_year, quarter)

\* site_forecasts.get(forecast_key): the last row stored under the key
SiteForecast(group, future_year, quarter) ==
    LET i == CHOOSE k \in 1..Len(group) :
                 /\ SiteKeyMatches(group[k], future_year, quarter)
                 /\ \A j \in (k + 1)..Len(group) :
                        ~SiteKeyMatches(group[j], future_year, quarter)
    IN  group[i]

----------------------------------------------------------------------------
(* forecast_dividends: helpers of the strategies *)

\* range(current_year + 1, current_year + years + 1)
FutureYearsFromCurrent(n) == [i \in 1..n |-> CurrentYear + i - 1]

FutureYears(n) == [i \in 1..n |-> CurrentYear + i]

\* round(total / count, 2) in hundredths: Python rounds halves to even
RoundDivTruncating(total, count) == total \div count

RoundDiv(total, count) ==
    LET q == total \div count
        r == total % count
    IN  IF 2 * r < count THEN q
        ELSE IF 2 * r > count THEN q + 1
        ELSE IF q % 2 = 0 THEN q ELSE q + 1

Count(xs, v) == Cardinality({i \in 1..Len(xs) : xs[i] = v})

\* max(set(xs), key=xs.count): the first value of greatest count in the
\* set's iteration order, which for small numbers is the order of v mod 8
\* (the values met here fall in distinct slots)
MostCommon(xs) ==
    LET best == {v \in Range(xs) : \A w \in Range(xs) : Count(xs, w) <= Count(xs, v)}
    IN  CHOOSE v \in best : \A w \in best : (v % 8) <= (w % 8)

\* datetime(year, month, day) raises something other than the ValueError the
\* code recovers from: a NaN month or day is a TypeError, and a month outside
\* 1..12 raises again inside the handler
DateRaises(m, d) == m \notin 1..12 \/ d = NaN

\* try: datetime(y, m, d) / except ValueError: the clamping of the code
ClampedDateNoCentury(y, m, d) ==
    IF ValidDate(y, m, d) THEN <<y, m, d>>
    ELSE IF m = 2 /\ d > 28
         THEN (IF y % 4 = 0 THEN <<y, 2, 29>> ELSE <<y, 2, 28>>)
    ELSE IF d > 30 /\ m \in {4, 6, 9, 11} THEN <<y, m, 30>>
    ELSE IF m > 1 THEN <<y, m - 1, DaysInMonth(y, m - 1)>>
    ELSE <<y - 1, 12, 31>>

\* the date construction with the last branch of the handler as its only
\* branch: any date that does not exist becomes the last day of the month
\* before
ClampedDatePreviousMonth(y, m, d) ==
    IF ValidDate(y, m, d) THEN <<y, m, d>>
    ELSE IF m > 1 THEN <<y, m - 1, DaysInMonth(y, m - 1)>>
    ELSE <<y - 1, 12, 31>>

ClampedDate(y, m, d) ==
    IF ValidDate(y, m, d) THEN <<y, m, d>>
    ELSE IF m = 2 /\ d > 28
         THEN (IF y % 4 = 0 /\ (y % 100 # 0 \/ y % 400 = 0)
               THEN <<y, 2, 29>> ELSE <<y, 2, 28>>)
    ELSE IF d > 30 /\ m \in {4, 6, 9, 11} THEN <<y, m, 30>>
    ELSE IF m > 1 THEN <<y, m - 1, DaysInMonth(y, m - 1)>>
    ELSE <<y - 1, 12, 31>>

\* one dict appended to forecast_data
ForecastRow(ticker, date, amount, year, quarter, strategy) ==
    [ticker |-> ticker,
     record_date |-> date,
     record_date_str |-> FormatDate(date),
     dividend_value |-> amount,
     forecast_type |-> 2,
     year |-> year,
     year_float |-> FALSE,
     quarter |-> quarter,
     month |-> date[2],
     forecast_strategy |-> strategy]

RECURSIVE ConcatAll(_)
ConcatAll(ss) == IF ss = <<>> THEN <<>> ELSE ss[1] \o ConcatAll(Tail(ss))

\* quarterly_dates
QuarterlyDates == <<<<3, 15>>, <<6, 15>>, <<9, 15>>, <<12, 15>>>>

\* the loop shared by the inactive, the annual and the emergency branch: for
\* each quarter, for each future year, one row at the quarter's fixed date
FixedDateForecasts(ticker, amount, strategy, n) ==
    ConcatAll([q \in 1..4 |->
        [i \in 1..n |->
            ForecastRow(ticker,
                        ClampedDate(FutureYears(n)[i], QuarterlyDates[q][1],
                                    QuarterlyDates[q][2]),
                        amount, FutureYears(n)[i], q, strategy)]])

----------------------------------------------------------------------------
(* forecast_dividends: the branches *)

\* if recent_payments_sum == 0
IsInactive(group, hy) == RecentPaymentsSum(group, hy) = 0

\* the inactive branch
InactiveForecasts(ticker, n) == FixedDateForecasts(ticker, 0, INACTIVE, n)

\* has_quarterly_data: some quarter holds more than one row, unless the
\* ticker has at most one payment in all
HasQuarterlyDataAnyQuarter(quarters, payments) == Len(quarters) > 0

HasQuarterlyDataOneRowEnough(quarters, payments) ==
    /\ \E i \in 1..Len(quarters) : Len(quarters[i].rows) > 0
    /\ ~(Len(payments) <= 1)

HasQuarterlyData(quarters, payments) ==
    /\ \E i \in 1..Len(quarters) : Len(quarters[i].rows) > 1
    /\ ~(Len(payments) <= 1)

\* most_common_month of one quarter's history
TypicalMonth(history) ==
    LET months == SelectSeq([i \in 1..Len(history) |-> history[i].month],
                            LAMBDA m : m # None)
    IN  IF months = <<>> THEN CurrentMonth ELSE MostCommon(months)

\* most_common_day of one quarter's history
TypicalDayRounded(history) ==
    LET in_month == SelectSeq(history,
                      LAMBDA r : IsDated(r.record_date)
                                 /\ r.record_date[2] = TypicalMonth(history))
    IN  IF in_month = <<>> THEN 15
        ELSE LET RECURSIVE SumDays(_)
                 SumDays(rows) == IF rows = <<>> THEN 0
                                  ELSE rows[1].record_date[3] + SumDays(Tail(rows))
             IN  (2 * SumDays(in_month) + Len(in_month)) \div (2 * Len(in_month))

TypicalDay(history) ==
    LET in_month == SelectSeq(history,
                      LAMBDA r : IsDated(r.record_date)
                                 /\ r.record_date[2] = TypicalMonth(history))
    IN  IF in_month = <<>> THEN 15
        ELSE LET RECURSIVE SumDays(_)
                 SumDays(rows) == IF rows = <<>> THEN 0
                                  ELSE rows[1].record_date[3] + SumDays(Tail(rows))
             IN  SumDays(in_month) \div Len(in_month)

\* one pass of the loop over future_year in strategy 3.1: the row appended,
\* or nothing when the except Exception branch is taken.  A NaT record_date
\* of the site's forecast is truthy, is taken as the date, and its strftime
\* raises.
QuarterlyPoint(ticker, group, entry, future_year) ==
    IF /\ HasSiteForecast(group, future_year, entry.key)
       /\ SiteForecast(group, future_year, entry.key).record_date # NoDate
    THEN LET site == SiteForecast(group, future_year, entry.key)
         IN  IF site.record_date = NaT THEN <<>>
             ELSE <<ForecastRow(ticker, site.record_date, site.dividend_value,
                                future_year, entry.key, QUARTERLY)>>
    ELSE IF DateRaises(TypicalMonth(entry.rows), TypicalDay(entry.rows)) THEN <<>>
    ELSE <<ForecastRow(ticker,
                       ClampedDate(future_year, TypicalMonth(entry.rows),
                                   TypicalDay(entry.rows)),
                       RoundDiv(SumAmounts(entry.rows), Len(entry.rows)),
                       future_year, entry.key, QUARTERLY)>>

\* the except branch of one data point of strategy 3.1 is taken: the site's
\* forecast of the slot has no date (NaT), or the date cannot be built
QuarterlySlotFails(group, entry, future_year) ==
    IF /\ HasSiteForecast(group, future_year, entry.key)
       /\ SiteForecast(group, future_year, entry.key).record_date # NoDate
    THEN SiteForecast(group, future_year, entry.key).record_date = NaT
    ELSE DateRaises(TypicalMonth(entry.rows), TypicalDay(entry.rows))

\* the except branch of one data point of strategy 3.2 is taken
DatesSlotFails(entry) == DateRaises(entry.key[1], entry.key[2])

\* strategy 3.1 as it would be if the except branch of a data point left the
\* loops (break, or no handler at all) instead of continuing: the rows up to
\* the first data point that fails
QuarterlyForecastsAbortOnFailure(ticker, group, n) ==
    LET quarters == TickerQuarters(group)
        points == ConcatAll([q \in 1..Len(quarters) |->
                      [i \in 1..n |->
                          QuarterlyPoint(ticker, group, quarters[q],
                                         FutureYears(n)[i])]])
        failed == {k \in 1..Len(points) : points[k] = <<>>}
        stop == IF failed = {} THEN Len(points)
                ELSE (CHOOSE k \in failed : \A j \in failed : k <= j) - 1
    IN  ConcatAll(SubSeq(points, 1, stop))

\* strategy 3.1: for each quarter of ticker_quarters, for each future year
QuarterlyForecasts(ticker, group, n) ==
    LET quarters == TickerQuarters(group)
    IN  ConcatAll([q \in 1..Len(quarters) |->
            ConcatAll([i \in 1..n |->
                QuarterlyPoint(ticker, group, quarters[q], FutureYears(n)[i])])])

\* if ticker_forecast_count == 0 and annual_payment_dates
DatesEligibleAnyCount(count, dates) == Len(dates) > 0

DatesEligible(count, dates) == count = 0 /\ Len(dates) > 0

\* quarter of one (month, day) group
GroupQuarter(entry) ==
    LET qs == SelectSeq([i \in 1..Len(entry.rows) |-> entry.rows[i].quarter],
                        LAMBDA q : q # None)
    IN  IF qs # <<>> THEN MostCommon(qs) ELSE QuarterOfMonth(entry.key[1])

\* strategy 3.2 with the amount of the group's latest payment in place of the
\* group's mean
DatesForecastsLastAmount(ticker, group, n) ==
    LET dates == AnnualPaymentDates(group)
    IN  ConcatAll([g \in 1..Len(dates) |->
            ConcatAll([i \in 1..n |->
                IF DateRaises(dates[g].key[1], dates[g].key[2]) THEN <<>>
                ELSE <<ForecastRow(ticker,
                                   ClampedDate(FutureYears(n)[i], dates[g].key[1],
                                               dates[g].key[2]),
                                   dates[g].rows[1].dividend_value,
                                   FutureYears(n)[i], GroupQuarter(dates[g]),
                                   DATES)>>])])

\* strategy 3.2: for each (month, day), for each future year
DatesForecasts(ticker, group, n) ==
    LET dates == AnnualPaymentDates(group)
    IN  ConcatAll([g \in 1..Len(dates) |->
            ConcatAll([i \in 1..n |->
                IF DateRaises(dates[g].key[1], dates[g].key[2]) THEN <<>>
                ELSE <<ForecastRow(ticker,
                                   ClampedDate(FutureYears(n)[i], dates[g].key[1],
                                               dates[g].key[2]),
                                   RoundDiv(SumAmounts(dates[g].rows),
                                            Len(dates[g].rows)),
                                   FutureYears(n)[i], GroupQuarter(dates[g]),
                                   DATES)>>])])

\* the guard of strategy 3.3 without the test of ticker_forecast_count
AnnualEligibleAnyCount(count, payments) == Len(payments) > 0

\* the guard of strategy 3.3 if it asked for more than one payment
AnnualEligibleTwoPayments(count, payments) == count = 0 /\ Len(payments) > 1

\* if ticker_forecast_count == 0 and len(all_payments) > 0
AnnualEligible(count, payments) == count = 0 /\ Len(payments) > 0

\* strategy 3.3 with the sum of the payments in place of their mean
AnnualForecastsOfSum(ticker, group, n) ==
    FixedDateForecasts(ticker, RoundDiv(SumAmounts(AllPayments(group)), 4),
                       ANNUAL, n)

\* strategy 3.3: round(avg_dividend / 4, 2) at the four fixed dates.  Nothing
\* in its outer try block can raise (a sum and a division by a length > 0 of
\* floats), so the single-annual fallback of its except branch never runs.
AnnualForecasts(ticker, group, n) ==
    FixedDateForecasts(ticker,
                       RoundDiv(SumAmounts(AllPayments(group)),
                                4 * Len(AllPayments(group))),
                       ANNUAL, n)

\* if ticker_forecast_count == 0
EmergencyEligibleAfterForecasts(count) == count > 0

EmergencyEligible(count) == count = 0

\* strategy 3.4
EmergencyForecasts(ticker, n) == FixedDateForecasts(ticker, 0, EMERGENCY, n)

----------------------------------------------------------------------------
(* forecast_dividends: the merge *)

\* df = self.clean_df.copy() with the column forecast_strategy added
WithStrategyColumn(df) ==
    [i \in 1..Len(df) |->
        [ticker |-> df[i].ticker,
         record_date |-> df[i].record_date,
         record_date_str |-> df[i].record_date_str,
         dividend_value |-> df[i].dividend_value,
         forecast_type |-> df[i].forecast_type,
         year |-> df[i].year,
         year_float |-> df[i].year_float,
         quarter |-> df[i].quarter,
         month |-> df[i].month,
         forecast_strategy |-> IF df[i].forecast_type = 0
                               THEN ACTUAL_LABEL ELSE SITE_LABEL]]

\* the order of sort_values(['ticker', 'record_date']): ticker ascending,
\* then date ascending with the missing dates last
SortsBefore(a, b) ==
    \/ TickerRank(a.ticker) < TickerRank(b.ticker)
    \/ /\ a.ticker = b.ticker
       /\ IsDated(a.record_date)
       /\ \/ ~IsDated(b.record_date)
          \/ DateLess(a.record_date, b.record_date)

\* a stable sort: a row goes after every row that does not sort after it
RECURSIVE SortValues(_)
SortValues(rows) ==
    IF rows = <<>> THEN <<>>
    ELSE LET sorted == SortValues(Front(rows))
             r == rows[Len(rows)]
             k == Cardinality({i \in 1..Len(sorted) : ~SortsBefore(r, sorted[i])})
         IN  SubSeq(sorted, 1, k) \o <<r>> \o SubSeq(sorted, k + 1, Len(sorted))

\* pd.concat([df[common_cols], forecast_df[common_cols]], ignore_index=True)
ConcatDroppingUndated(df, forecasts) ==
    SelectSeq(df, LAMBDA r : IsDated(r.record_date)) \o forecasts

Concat(df, forecasts) == df \o forecasts

\* the tail of forecast_dividends: sorted only when forecast_data is not empty
Merged(df, forecasts) ==
    IF forecasts # <<>> THEN SortValues(Concat(df, forecasts)) ELSE df

----------------------------------------------------------------------------
(* The run of main: parse_stock_details, clean_data, forecast_dividends,   *)
(* save_to_excel, save_to_json                                             *)

Init ==
    /\ detailed_dividends = <<>>
    /\ next_row = 1
    /\ clean_df = <<>>
    /\ pc = "parse"
    /\ years = 0
    /\ history_years = 0
    /\ todo = <<>>
    /\ ticker_forecast_count = 0
    /\ forecast_data = <<>>
    /\ result_df = Unassigned
    /\ ret = "running"
    /\ clamp_in = NoDate
    /\ clamp_out = NoDate

\* the values of history_years tried: the shortest window and main's 3
HistoryYearsChoices == {1, 3}

\* df of forecast_dividends
Df == WithStrategyColumn(clean_df)

\* the group the loop over df.groupby('ticker') is at
CurrentTicker == Head(todo)
CurrentGroup == Group(Df, CurrentTicker)

\* parse_stock_details appends the next row a page holds
ParseRow(i) ==
    /\ pc = "parse"
    /\ Len(detailed_dividends) < MaxRecords
    /\ i >= next_row
    /\ TablesAgree(detailed_dividends, i)
    /\ detailed_dividends' = Append(detailed_dividends, PageRows[i])
    /\ next_row' = i + 1
    /\ UNCHANGED <<clean_df, pc, years, history_years, todo,
                   ticker_forecast_count, forecast_data, result_df, ret,
                   clamp_in, clamp_out>>

\* clean_data
CleanData ==
    /\ pc = "parse"
    /\ clean_df' = CleanDataFrame(detailed_dividends)
    /\ pc' = "forecast"
    /\ UNCHANGED <<detailed_dividends, next_row, years, history_years, todo,
                   ticker_forecast_count, forecast_data, result_df, ret,
                   clamp_in, clamp_out>>

\* forecast_dividends on an empty clean_df returns None at once
ForecastNoData(n, hy) ==
    /\ pc = "forecast"
    /\ clean_df = <<>>
    /\ years' = n
    /\ history_years' = hy
    /\ ret' = "None"
    /\ pc' = "done"
    /\ UNCHANGED <<detailed_dividends, next_row, clean_df, todo,
                   ticker_forecast_count, forecast_data, result_df,
                   clamp_in, clamp_out>>

\* forecast_dividends up to the loop over the groups
ForecastBegin(n, hy) ==
    /\ pc = "forecast"
    /\ clean_df # <<>>
    /\ years' = n
    /\ history_years' = hy
    /\ forecast_data' = <<>>
    /\ todo' = GroupKeys(clean_df)
    /\ ticker_forecast_count' = 0
    /\ pc' = "gate"
    /\ UNCHANGED <<detailed_dividends, next_row, clean_df, result_df, ret,
                   clamp_in, clamp_out>>

\* one strategy's rows are appended and counted
Emit(rows, next_pc) ==
    /\ forecast_data' = forecast_data \o rows
    /\ ticker_forecast_count' = ticker_forecast_count + Len(rows)
    /\ pc' = next_pc
    /\ UNCHANGED <<detailed_dividends, next_row, clean_df, years,
                   history_years, todo, result_df, ret, clamp_in, clamp_out>>

\* the group's rows are read and recent_payments_sum is 0
InactiveBranch ==
    /\ pc = "gate"
    /\ IsInactive(CurrentGroup, history_years)
    /\ Emit(InactiveForecasts(CurrentTicker, years), "record")

\* the group's rows are read and recent_payments_sum is not 0
ActiveBranch ==
    /\ pc = "gate"
    /\ ~IsInactive(CurrentGroup, history_years)
    /\ Emit(<<>>, "quarterly")

\* strategy 3.1 without the handler of a data point: the exception of a
\* failing data point leaves forecast_dividends
StrategyQuarterlyRaising ==
    /\ pc = "quarterly"
    /\ IF /\ HasQuarterlyData(TickerQuarters(CurrentGroup),
                               AllPayments(CurrentGroup))
          /\ \E q \in 1..Len(TickerQuarters(CurrentGroup)), i \in 1..years :
                QuarterlySlotFails(CurrentGroup,
                                   TickerQuarters(CurrentGroup)[q],
                                   CurrentYear + i)
       THEN /\ pc' = "raised"
            /\ UNCHANGED <<detailed_dividends, next_row, clean_df, years,
                           history_years, todo, ticker_forecast_count,
                           forecast_data, result_df, ret, clamp_in, clamp_out>>
       ELSE Emit(QuarterlyForecasts(CurrentTicker, CurrentGroup, years),
                 "dates")

StrategyQuarterly ==
    /\ pc = "quarterly"
    /\ Emit(IF HasQuarterlyData(TickerQuarters(CurrentGroup),
                                AllPayments(CurrentGroup))
            THEN QuarterlyForecasts(CurrentTicker, CurrentGroup, years)
            ELSE <<>>,
            "dates")

StrategyDates ==
    /\ pc = "dates"
    /\ Emit(IF DatesEligible(ticker_forecast_count,
                             AnnualPaymentDates(CurrentGroup))
            THEN DatesForecasts(CurrentTicker, CurrentGroup, years)
            ELSE <<>>,
            "annual")

StrategyAnnual ==
    /\ pc = "annual"
    /\ Emit(IF AnnualEligible(ticker_forecast_count, AllPayments(CurrentGroup))
            THEN AnnualForecasts(CurrentTicker, CurrentGroup, years)
            ELSE <<>>,
            "emergency")

StrategyEmergency ==
    /\ pc = "emergency"
    /\ Emit(IF EmergencyEligible(ticker_forecast_count)
            THEN EmergencyForecasts(CurrentTicker, years)
            ELSE <<>>,
            "record")

\* forecasts_by_ticker[ticker] = ticker_forecast_count, then the next group
NextGroup ==
    /\ pc = "record"
    /\ todo' = Tail(todo)
    /\ ticker_forecast_count' = 0
    /\ pc' = IF Tail(todo) = <<>> THEN "merge" ELSE "gate"
    /\ UNCHANGED <<detailed_dividends, next_row, clean_df, years,
                   history_years, forecast_data, result_df, ret,
                   clamp_in, clamp_out>>

\* the concat, the sort and the return
Merge ==
    /\ pc = "merge"
    /\ result_df' = Merged(Df, forecast_data)
    /\ ret' = "result_df"
    /\ pc' = "done"
    /\ UNCHANGED <<detailed_dividends, next_row, clean_df, years,
                   history_years, todo, ticker_forecast_count, forecast_data,
                   clamp_in, clamp_out>>

\* save_to_excel: reads self.result_df at its first test; the frame
\* forecast_dividends assigns is never empty, so the file is written
SaveToExcel ==
    /\ pc = "done"
    /\ pc' = IF result_df = Unassigned THEN "AttributeError" ELSE "save_to_json"
    /\ UNCHANGED <<detailed_dividends, next_row, clean_df, years,
                   history_years, todo, ticker_forecast_count, forecast_data,
                   result_df, ret, clamp_in, clamp_out>>

\* save_to_json: main reaches it only when save_to_excel has returned
SaveToJson ==
    /\ pc = "save_to_json"
    /\ pc' = "exit"
    /\ UNCHANGED <<detailed_dividends, next_row, clean_df, years,
                   history_years, todo, ticker_forecast_count, forecast_data,
                   result_df, ret, clamp_in, clamp_out>>

Next ==
    \/ \E i \in 1..Len(PageRows) : ParseRow(i)
    \/ CleanData
    \/ \E n \in 0..MaxYears, hy \in HistoryYearsChoices : ForecastNoData(n, hy)
    \/ \E n \in 0..MaxYears, hy \in HistoryYearsChoices : ForecastBegin(n, hy)
    \/ InactiveBranch
    \/ ActiveBranch
    \/ StrategyQuarterly
    \/ StrategyDates
    \/ StrategyAnnual
    \/ StrategyEmergency
    \/ NextGroup
    \/ Merge
    \/ SaveToExcel
    \/ SaveToJson

Spec == Init /\ [][Next]_vars

----------------------------------------------------------------------------
(* The date construction of the strategies on its own *)

ClampYears == ((CurrentYear + 1)..(CurrentYear + MaxClampSpan)) \cup {2100, 2400}

InitClamp ==
    /\ detailed_dividends = <<>>
    /\ next_row = 1
    /\ clean_df = <<>>
    /\ pc = "clamp"
    /\ years = 0
    /\ history_years = 0
    /\ todo = <<>>
    /\ ticker_forecast_count = 0
    /\ forecast_data = <<>>
    /\ result_df = <<>>
    /\ ret = "running"
    /\ clamp_in \in ClampYears \X (1..12) \X (1..31)
    /\ clamp_out = NoDate

\* try: forecast_date = datetime(y, m, d) / except ValueError: ...
BuildDate ==
    /\ pc = "clamp"
    /\ clamp_out' = ClampedDate(clamp_in[1], clamp_in[2], clamp_in[3])
    /\ pc' = "clamped"
    /\ UNCHANGED <<detailed_dividends, next_row, clean_df, years,
                   history_years, todo, ticker_forecast_count, forecast_data,
                   result_df, ret, clamp_in>>

NextClamp == BuildDate

SpecClamp == InitClamp /\ [][NextClamp]_vars

----------------------------------------------------------------------------
(* Properties *)

\* the rows of forecast_data of one ticker, in order
ForecastsOf(ticker) == SelectSeq(forecast_data, LAMBDA f : f.ticker = ticker)

\* the sum the activity gate is specified by: the amounts of the ACTUAL rows
\* of the ticker whose year is at least CurrentYear - history_years
ActualRecentSum(ticker) ==
    SumAmounts(SelectSeq(clean_df,
        LAMBDA r : /\ r.ticker = ticker
                   /\ r.forecast_type = 0
                   /\ r.year >= CurrentYear - history_years))

\* how many ACTUAL rows the ticker has
ActualCount(ticker) ==
    Cardinality({i \in 1..Len(clean_df) :
                    clean_df[i].ticker = ticker /\ clean_df[i].forecast_type = 0})

\* C1: every forecast row of a security whose ACTUAL amounts of the recent
\* window sum to zero has amount 0 and the label of the inactive branch, and
\* no other label.
C1_InactiveOnlyZeroRows ==
    \A i \in 1..Len(forecast_data) :
        ActualRecentSum(forecast_data[i].ticker) = 0
        => /\ forecast_data[i].dividend_value = 0
           /\ forecast_data[i].forecast_strategy = INACTIVE

\* a run has ended with inactive rows for a ticker that does have ACTUAL rows,
\* all of them older than the window
C1_Witness ==
    /\ pc = "done"
    /\ \E i \in 1..Len(forecast_data) :
          /\ forecast_data[i].forecast_strategy = INACTIVE
          /\ ActualCount(forecast_data[i].ticker) > 0
          /\ ActualRecentSum(forecast_data[i].ticker) = 0

\* the rows a step appends to forecast_data
StrategyOfStage(stage) ==
    IF stage = "quarterly" THEN QUARTERLY
    ELSE IF stage = "dates" THEN DATES
    ELSE IF stage = "annual" THEN ANNUAL
    ELSE EMERGENCY

\* C2: for an active security the strategies are tried in the order
\* quarterly-data, payment-dates, annual-data, emergency; the rows a stage
\* appends carry that stage's label; and once the ticker has a forecast row, no
\* later strategy appends any.
C2_FirstProducerWins ==
    [][ /\ (pc = "quarterly" => pc' = "dates")
        /\ (pc = "dates" => pc' = "annual")
        /\ (pc = "annual" => pc' = "emergency")
        /\ (pc \in {"quarterly", "dates", "annual", "emergency"}
            => /\ Len(forecast_data') >= Len(forecast_data)
               /\ \A i \in 1..Len(forecast_data') :
                     IF i <= Len(forecast_data)
                     THEN forecast_data'[i] = forecast_data[i]
                     ELSE /\ forecast_data'[i].forecast_strategy = StrategyOfStage(pc)
                          /\ forecast_data'[i].ticker = CurrentTicker)
        /\ (pc \in {"dates", "annual", "emergency"} /\ ticker_forecast_count > 0
            => forecast_data' = forecast_data)
      ]_vars

\* the payment-dates strategy is reached with anniversary groups at hand after
\* the quarterly strategy has produced rows
C2_Witness ==
    /\ pc = "dates"
    /\ ticker_forecast_count > 0
    /\ Len(AnnualPaymentDates(CurrentGroup)) > 0
    /\ years > 0

\* C3: no two forecast rows of one security carry the same (quarter, year).
C3_NoDuplicateQuarterYear ==
    \A i, j \in 1..Len(forecast_data) :
        i < j => ~(/\ forecast_data[i].ticker = forecast_data[j].ticker
                   /\ forecast_data[i].quarter = forecast_data[j].quarter
                   /\ forecast_data[i].year = forecast_data[j].year)

\* C4: a security with exactly one ACTUAL payment never gets a row labelled
\* quarterly-data; when it passes the activity gate its rows come from a later
\* strategy of the chain.
C4_SinglePaymentNotQuarterly ==
    \A i \in 1..Len(forecast_data) :
        ActualCount(forecast_data[i].ticker) = 1
        => /\ forecast_data[i].forecast_strategy # QUARTERLY
           /\ (ActualRecentSum(forecast_data[i].ticker) > 0
               => forecast_data[i].forecast_strategy \in {DATES, ANNUAL, EMERGENCY})

\* a ticker with one ACTUAL payment, recent and in a known quarter, has got
\* its rows from the payment-dates strategy
C4_Witness ==
    /\ pc = "done"
    /\ \E i \in 1..Len(forecast_data) :
          /\ ActualCount(forecast_data[i].ticker) = 1
          /\ forecast_data[i].forecast_strategy = DATES
          /\ \E k \in 1..Len(clean_df) :
                /\ clean_df[k].ticker = forecast_data[i].ticker
                /\ clean_df[k].forecast_type = 0
                /\ clean_df[k].quarter \in 1..4

\* the quarters the quarterly strategy went through for a ticker
QuarterKeys(ticker) ==
    {TickerQuarters(Group(Df, ticker))[i].key :
        i \in 1..Len(TickerQuarters(Group(Df, ticker)))}

\* the SITE_FORECAST rows of a ticker for one year and quarter
SiteRows(ticker, year, quarter) ==
    {i \in 1..Len(clean_df) :
        /\ clean_df[i].ticker = ticker
        /\ clean_df[i].forecast_type = 1
        /\ clean_df[i].year = year
        /\ clean_df[i].quarter = quarter}

\* C5: in the quarterly strategy, every slot (future year, quarter) for which
\* a SITE_FORECAST row of that year and quarter exists gets a forecast row
\* that carries a site row's date and amount.
C5_SiteForecastOverrides ==
    pc = "done" =>
        \A t \in Range(GroupKeys(clean_df)), n \in 1..years, q \in 1..4 :
            (/\ \E i \in 1..Len(forecast_data) :
                    /\ forecast_data[i].ticker = t
                    /\ forecast_data[i].forecast_strategy = QUARTERLY
             /\ q \in QuarterKeys(t)
             /\ SiteRows(t, CurrentYear + n, q) # {})
            => \E i \in 1..Len(forecast_data) :
                  /\ forecast_data[i].ticker = t
                  /\ forecast_data[i].year = CurrentYear + n
                  /\ forecast_data[i].quarter = q
                  /\ \E k \in SiteRows(t, CurrentYear + n, q) :
                        /\ forecast_data[i].record_date = clean_df[k].record_date
                        /\ forecast_data[i].dividend_value = clean_df[k].dividend_value

\* C6: built for month 2 and day 29 the date is Feb 29 of the year when the
\* year is leap and Feb 28 when it is not; built for day 31 of April, June,
\* September or November it is day 30 of that month.
C6_DateClamping ==
    pc = "clamped" =>
        LET y == clamp_in[1]
            m == clamp_in[2]
            d == clamp_in[3]
        IN  /\ (m = 2 /\ d = 29
                => clamp_out = <<y, 2, IF IsLeap(y) THEN 29 ELSE 28>>)
            /\ (m \in {4, 6, 9, 11} /\ d = 31 => clamp_out = <<y, m, 30>>)

\* Feb 29 has been asked for in a year that is not leap
C6_Witness ==
    /\ pc = "clamped"
    /\ clamp_in = <<CurrentYear + 1, 2, 29>>
    /\ clamp_out = <<CurrentYear + 1, 2, 28>>

\* the three Q1 payments of 2022, 2023 and 2024 are all the ticker has
C8_Input(ticker) ==
    LET g == Group(clean_df, ticker)
    IN  /\ Len(g) = 3
        /\ \A i \in 1..3 : g[i].forecast_type = 0 /\ g[i].quarter = 1
        /\ \E i \in 1..3 : g[i].year = 2022 /\ g[i].dividend_value = 500
        /\ \E i \in 1..3 : g[i].year = 2023 /\ g[i].dividend_value = 700
        /\ \E i \in 1..3 : g[i].year = 2024 /\ g[i].dividend_value = 600

\* C8: a ticker whose only rows are ACTUAL payments in quarter 1 of 2022, 2023
\* and 2024 of 5.00, 7.00 and 6.00, run with years = 2 and history_years = 3
\* in 2024, gets exactly two forecast rows: quarter 1 of 2025 and of 2026,
\* amount 6.00, labelled quarterly-data.
C8_EndToEnd ==
    \A t \in {"ABC", "XYZ"} :
        (pc = "done" /\ ret = "result_df" /\ years = 2 /\ history_years = 3
         /\ C8_Input(t))
        => LET f == ForecastsOf(t)
           IN  /\ Len(f) = 2
               /\ f[1].year = 2025 /\ f[2].year = 2026
               /\ \A i \in 1..2 : /\ f[i].quarter = 1
                                  /\ f[i].dividend_value = 600
                                  /\ f[i].forecast_strategy = QUARTERLY

C8_Witness ==
    /\ pc = "done" /\ ret = "result_df" /\ years = 2 /\ history_years = 3
    /\ CurrentYear = 2024
    /\ C8_Input("ABC")
    /\ Len(ForecastsOf("ABC")) = 2

\* ticker ascending, then date ascending, the rows without a date after the
\* dated rows of their ticker: b may not have to come before a
OrderedPair(a, b) ==
    \/ TickerRank(a.ticker) < TickerRank(b.ticker)
    \/ /\ a.ticker = b.ticker
       /\ \/ ~IsDated(b.record_date)
          \/ /\ IsDated(a.record_date)
             /\ ~DateLess(b.record_date, a.record_date)

HistoricalFields(r) ==
    <<r.ticker, r.record_date, r.dividend_value, r.year, r.quarter, r.forecast_type>>

\* the result holds every row of clean_df once, unchanged, and the rows of
\* forecast_data, and nothing else
MergeFrame ==
    /\ Len(result_df) = Len(clean_df) + Len(forecast_data)
    /\ \A i \in 1..Len(clean_df) :
          Cardinality({j \in 1..Len(result_df) :
              /\ result_df[j].forecast_type # 2
              /\ HistoricalFields(result_df[j]) = HistoricalFields(clean_df[i])}) = 1
    /\ \A k \in 1..Len(forecast_data) :
          Cardinality({j \in 1..Len(result_df) : result_df[j] = forecast_data[k]})
          = Cardinality({j \in 1..Len(forecast_data) :
                            forecast_data[j] = forecast_data[k]})

\* C10: the merged output holds every cleaned historical row exactly once with
\* its ticker, date, amount, year, quarter and provenance code unchanged, plus
\* exactly the generated forecast rows, and forecast_dividends leaves clean_df
\* as it was.
C10_MergeKeepsHistory ==
    [][ /\ (pc # "parse" => clean_df' = clean_df)
        /\ (pc = "merge" => MergeFrame')
      ]_vars

\* a merge of several historical rows, one of them undated, with forecasts
C10_Witness ==
    /\ ret = "result_df"
    /\ Len(forecast_data) > 0
    /\ Len(clean_df) > 1
    /\ \E i \in 1..Len(clean_df) : ~IsDated(clean_df[i].record_date)

----------------------------------------------------------------------------
(* Failure of single data points *)

\* the rows of forecast_data of one ticker that carry one label
RowsOf(ticker, strategy) ==
    SelectSeq(forecast_data,
              LAMBDA f : f.ticker = ticker /\ f.forecast_strategy = strategy)

\* the slots (entry of ticker_quarters, future year) of a ticker that do not
\* fail
QuarterlySlotsKept(ticker) ==
    LET g == Group(Df, ticker)
    IN  {s \in (1..Len(TickerQuarters(g))) \X (1..years) :
            ~QuarterlySlotFails(g, TickerQuarters(g)[s[1]], CurrentYear + s[2])}

\* the slots ((month, day) group, future year) of a ticker that do not fail
DatesSlotsKept(ticker) ==
    LET g == Group(Df, ticker)
    IN  {s \in (1..Len(AnnualPaymentDates(g))) \X (1..years) :
            ~DatesSlotFails(AnnualPaymentDates(g)[s[1]])}

\* C11: when a data point of a strategy fails, only that data point is
\* missing.  For every security whose rows come from the quarterly strategy,
\* each slot (quarter, future year) that did not fail has its row, and the
\* security has no other rows; likewise for every security whose rows come
\* from the payment-dates strategy and each slot ((month, day), future year).
\* This holds of every security of the run, whether or not a data point of
\* another security failed.
C11_FailureSkipsOnePoint ==
    pc = "done" =>
        \A t \in Range(GroupKeys(clean_df)) :
            LET g == Group(Df, t)
                quarters == TickerQuarters(g)
                dates == AnnualPaymentDates(g)
                q_rows == RowsOf(t, QUARTERLY)
                d_rows == RowsOf(t, DATES)
            IN  /\ q_rows # <<>> =>
                     /\ Len(q_rows) = Cardinality(QuarterlySlotsKept(t))
                     /\ \A s \in QuarterlySlotsKept(t) :
                           Cardinality({i \in 1..Len(q_rows) :
                               /\ q_rows[i].quarter = quarters[s[1]].key
                               /\ q_rows[i].year = CurrentYear + s[2]})
                           = Cardinality({s2 \in QuarterlySlotsKept(t) :
                               /\ quarters[s2[1]].key = quarters[s[1]].key
                               /\ s2[2] = s[2]})
                /\ d_rows # <<>> =>
                     /\ Len(d_rows) = Cardinality(DatesSlotsKept(t))
                     /\ \A s \in DatesSlotsKept(t) :
                           \E i \in 1..Len(d_rows) :
                               /\ d_rows[i].year = CurrentYear + s[2]
                               /\ d_rows[i].record_date =
                                      ClampedDate(CurrentYear + s[2],
                                                  dates[s[1]].key[1],
                                                  dates[s[1]].key[2])

\* a run has ended in which a data point of the quarterly strategy failed for
\* a ticker and an entry of ticker_quarters that comes after the failed one
\* got its rows
C11_Witness ==
    /\ pc = "done"
    /\ \E t \in Range(GroupKeys(clean_df)) :
          LET g == Group(Df, t)
              quarters == TickerQuarters(g)
          IN  /\ RowsOf(t, QUARTERLY) # <<>>
              /\ \E q \in 1..Len(quarters), y \in 1..years :
                    /\ QuarterlySlotFails(g, quarters[q], CurrentYear + y)
                    /\ \E s \in QuarterlySlotsKept(t) : s[1] > q

\* a run has ended in which every data point of one (month, day) group of
\* the payment-dates strategy failed and another group got its rows
C11_WitnessDates ==
    /\ pc = "done"
    /\ \E t \in Range(GroupKeys(clean_df)) :
          /\ RowsOf(t, DATES) # <<>>
          /\ \E g \in 1..Len(AnnualPaymentDates(Group(Df, t))) :
                DatesSlotFails(AnnualPaymentDates(Group(Df, t))[g])

----------------------------------------------------------------------------
(* The emergency strategy *)

\* the rows the emergency strategy is specified to emit: for each quarter and
\* each future year a zero amount at the 15th of March, June, September and
\* December
EmergencyRowsExpected(ticker, n) ==
    ConcatAll([q \in 1..4 |->
        [i \in 1..n |->
            [ticker |-> ticker,
             record_date |-> <<CurrentYear + i, 3 * q, 15>>,
             record_date_str |-> <<15, 3 * q, CurrentYear + i>>,
             dividend_value |-> 0,
             forecast_type |-> 2,
             year |-> CurrentYear + i,
             year_float |-> FALSE,
             quarter |-> q,
             month |-> 3 * q,
             forecast_strategy |-> EMERGENCY]]])

\* C12 as stated: a security that has passed the activity gate never ends the
\* chain of strategies with zero forecasts.
C12_ActiveNeverWithoutForecasts ==
    (pc = "record" /\ ~IsInactive(CurrentGroup, history_years))
    => ticker_forecast_count > 0

\* C12 as amended: when the emergency strategy is reached with zero records
\* it appends 4 * years zero-amount rows labelled emergency at Mar 15, Jun 15,
\* Sep 15 and Dec 15 of every future year, and it appends nothing when the
\* ticker has records; with years >= 1 a security that has passed the
\* activity gate never ends the chain with zero forecasts.
C12_EmergencyWhenNothingElse ==
    [][ pc = "emergency" =>
          /\ forecast_data' = forecast_data \o
                 (IF ticker_forecast_count = 0
                  THEN EmergencyRowsExpected(CurrentTicker, years) ELSE <<>>)
          /\ ticker_forecast_count' = ticker_forecast_count +
                 (IF ticker_forecast_count = 0 THEN 4 * years ELSE 0)
          /\ (years >= 1 => ticker_forecast_count' > 0)
      ]_vars

\* the emergency strategy has run for a security that passed the activity
\* gate and got no row from any earlier strategy
C12_Witness ==
    /\ pc = "record"
    /\ ~IsInactive(CurrentGroup, history_years)
    /\ Len(AllPayments(CurrentGroup)) > 0
    /\ ForecastsOf(CurrentTicker) = <<>>

----------------------------------------------------------------------------
(* Termination *)

\* the rows of each ticker lie together in forecast_data
OneBlockPerTicker ==
    \A i, j, k \in 1..Len(forecast_data) :
        (i < j /\ j < k /\ forecast_data[i].ticker = forecast_data[k].ticker)
        => forecast_data[j].ticker = forecast_data[i].ticker

\* the positions of the run: at each of them but the last the program has a
\* next step
Positions ==
    {"parse", "forecast", "gate", "quarterly", "dates", "annual", "emergency",
     "record", "merge", "done"}

\* the positions of main after forecast_dividends has returned
AfterReturn == {"save_to_json", "exit", "AttributeError"}

\* how far forecast_dividends is from its return: the tickers still to
\* process and, for the current one, the stages still to go through
StepsLeft ==
    IF pc = "done" THEN 0
    ELSE IF pc = "merge" THEN 1
    ELSE IF pc = "record" THEN 6 * Len(todo) - 4
    ELSE IF pc = "emergency" THEN 6 * Len(todo) - 3
    ELSE IF pc = "annual" THEN 6 * Len(todo) - 2
    ELSE IF pc = "dates" THEN 6 * Len(todo) - 1
    ELSE IF pc = "quarterly" THEN 6 * Len(todo)
    ELSE IF pc = "gate" THEN 6 * Len(todo) + 1
    ELSE 6 * Len(clean_df) + 2

\* C13: forecast_dividends always returns.  The run never leaves the
\* positions at which the program has a next step (no failure inside a
\* strategy takes it elsewhere); every step of forecast_dividends brings it
\* nearer to its return, going on to the next strategy or the next ticker; a
\* ticker is taken off the list exactly when its chain has ended; and at the
\* return a value has been returned, no ticker is left, a frame that is not
\* empty has given result_df, each ticker's rows lie in one block and, with
\* years >= 1, every ticker has rows.
C13_Terminates ==
    /\ [](pc \in Positions \cup AfterReturn)
    /\ [][ pc \notin {"parse", "done"} \cup AfterReturn =>
             /\ StepsLeft' < StepsLeft
             /\ StepsLeft' >= 0
             /\ (todo' # todo =>
                    \/ pc = "forecast"
                    \/ pc = "record" /\ todo' = Tail(todo)) ]_vars
    /\ [](pc = "done" =>
            /\ ret # "running"
            /\ todo = <<>>
            /\ (clean_df # <<>> =>
                  /\ ret = "result_df"
                  /\ OneBlockPerTicker
                  /\ (years >= 1 =>
                        \A t \in Range(GroupKeys(clean_df)) :
                            ForecastsOf(t) # <<>>)))

\* forecast_dividends has returned from a run over two tickers in which a
\* data point of the quarterly strategy failed
C13_Witness ==
    /\ pc = "done"
    /\ ret = "result_df"
    /\ Len(GroupKeys(clean_df)) = 2
    /\ \E t \in Range(GroupKeys(clean_df)) :
          /\ RowsOf(t, QUARTERLY) # <<>>
          /\ \E q \in 1..Len(TickerQuarters(Group(Df, t))), y \in 1..years :
                QuarterlySlotFails(Group(Df, t),
                                   TickerQuarters(Group(Df, t))[q],
                                   CurrentYear + y)

----------------------------------------------------------------------------
(* The activity gate *)

\* the ticker has an ACTUAL row with a positive amount and a year not before
\* CurrentYear - history_years
HasRecentActual(ticker) ==
    \E i \in 1..Len(clean_df) :
        /\ clean_df[i].ticker = ticker
        /\ clean_df[i].forecast_type = 0
        /\ clean_df[i].dividend_value > 0
        /\ clean_df[i].year >= CurrentYear - history_years

\* C14: a security takes the inactive branch exactly when it has no ACTUAL
\* row with a positive amount and year >= CurrentYear - history_years (a row
\* of the year CurrentYear - history_years itself counts, a SITE_FORECAST row
\* never does); otherwise it goes on to the chain of strategies.
C14_ActivityGate ==
    [][ pc = "gate" =>
          /\ pc' \in {"record", "quarterly"}
          /\ (pc' = "record" <=> ~HasRecentActual(CurrentTicker))
          /\ \A i \in (Len(forecast_data) + 1)..Len(forecast_data') :
                forecast_data'[i].forecast_strategy = INACTIVE
      ]_vars

\* a security has passed the gate whose latest ACTUAL row is of the year
\* CurrentYear - history_years
C14_Witness ==
    /\ pc = "quarterly"
    /\ \E i \in 1..Len(CurrentGroup) :
          /\ CurrentGroup[i].forecast_type = 0
          /\ CurrentGroup[i].year = CurrentYear - history_years
    /\ \A i \in 1..Len(CurrentGroup) :
          CurrentGroup[i].forecast_type = 0
          => CurrentGroup[i].year <= CurrentYear - history_years

\* a security has taken the inactive branch whose only recent rows are
\* forecasts of the site
C14_WitnessSite ==
    /\ pc = "record"
    /\ IsInactive(CurrentGroup, history_years)
    /\ \E i \in 1..Len(CurrentGroup) :
          /\ CurrentGroup[i].forecast_type = 1
          /\ CurrentGroup[i].year >= CurrentYear - history_years

----------------------------------------------------------------------------
(* The quarterly strategy *)

\* the ACTUAL rows of a ticker recorded for one quarter
ActualOfQuarter(ticker, quarter) ==
    SelectSeq(clean_df, LAMBDA r : /\ r.ticker = ticker
                                   /\ r.forecast_type = 0
                                   /\ r.quarter = quarter)

\* C15: a forecast row labelled quarterly-data belongs to a security that
\* has passed the activity gate and has a quarter with at least two ACTUAL
\* rows; a security whose quarters have at most one ACTUAL row each gets no
\* such row.
C15_QuarterlyNeedsTwoInAQuarter ==
    \A i \in 1..Len(forecast_data) :
        forecast_data[i].forecast_strategy = QUARTERLY
        => /\ HasRecentActual(forecast_data[i].ticker)
           /\ \E q \in 1..4 :
                 Len(ActualOfQuarter(forecast_data[i].ticker, q)) >= 2

\* the quarterly strategy has served a security that has one quarter with
\* two ACTUAL rows and another with one
C15_Witness ==
    /\ pc = "done"
    /\ \E t \in Range(GroupKeys(clean_df)) :
          /\ RowsOf(t, QUARTERLY) # <<>>
          /\ \E q \in 1..4 : Len(ActualOfQuarter(t, q)) = 2
          /\ \E q \in 1..4 : Len(ActualOfQuarter(t, q)) = 1

\* a security with two ACTUAL rows, in different quarters, has passed the
\* gate and got its rows from a later strategy
C15_WitnessNotEligible ==
    /\ pc = "done"
    /\ years >= 1
    /\ \E t \in Range(GroupKeys(clean_df)) :
          /\ RowsOf(t, QUARTERLY) = <<>>
          /\ RowsOf(t, DATES) # <<>>
          /\ \E q1, q2 \in 1..4 :
                /\ q1 # q2
                /\ Len(ActualOfQuarter(t, q1)) = 1
                /\ Len(ActualOfQuarter(t, q2)) = 1

\* amount is total / count rounded to a whole number of hundredths
IsRoundedMean(amount, total, count) ==
    /\ 2 * (amount * count - total) <= count
    /\ 2 * (total - amount * count) <= count

\* C16: a row of the quarterly strategy for quarter q and a future year for
\* which the site gives no forecast has as its amount the mean of all ACTUAL
\* amounts of the security recorded for q, rounded to two decimals; the
\* amount is therefore the same in every such year.
C16_QuarterlyAmountIsMean ==
    \A i \in 1..Len(forecast_data) :
        LET f == forecast_data[i]
        IN  (/\ f.forecast_strategy = QUARTERLY
             /\ f.quarter \in 1..4
             /\ SiteRows(f.ticker, f.year, f.quarter) = {})
            => /\ IsRoundedMean(f.dividend_value,
                                SumAmounts(ActualOfQuarter(f.ticker, f.quarter)),
                                Len(ActualOfQuarter(f.ticker, f.quarter)))
               /\ \A j \in 1..Len(forecast_data) :
                     (/\ forecast_data[j].ticker = f.ticker
                      /\ forecast_data[j].forecast_strategy = QUARTERLY
                      /\ forecast_data[j].quarter = f.quarter
                      /\ SiteRows(f.ticker, forecast_data[j].year, f.quarter) = {})
                     => forecast_data[j].dividend_value = f.dividend_value

\* the quarterly strategy has given a quarter, for two future years, a mean
\* of three amounts that is not a whole number of hundredths
C16_Witness ==
    /\ pc = "done"
    /\ \E i, j \in 1..Len(forecast_data) :
          /\ forecast_data[i].forecast_strategy = QUARTERLY
          /\ forecast_data[j].forecast_strategy = QUARTERLY
          /\ forecast_data[i].ticker = forecast_data[j].ticker
          /\ forecast_data[i].quarter = 1
          /\ forecast_data[j].quarter = 1
          /\ forecast_data[i].year # forecast_data[j].year
          /\ Len(ActualOfQuarter(forecast_data[i].ticker, 1)) = 3
          /\ SumAmounts(ActualOfQuarter(forecast_data[i].ticker, 1)) % 3 # 0

\* the rows of a history that have a date in month m
DatedIn(history, m) ==
    {i \in 1..Len(history) :
        IsDated(history[i].record_date) /\ history[i].record_date[2] = m}

\* m is a month of greatest frequency among the records of the history, or
\* the current month when no record has a month
IsTypicalMonth(m, history) ==
    IF \A i \in 1..Len(history) : ~IsDated(history[i].record_date)
    THEN m = CurrentMonth
    ELSE /\ DatedIn(history, m) # {}
         /\ \A w \in 1..12 :
               Cardinality(DatedIn(history, w)) <= Cardinality(DatedIn(history, m))

\* the sum of the days of the records of the history dated in month m
RECURSIVE DaySum(_, _)
DaySum(history, m) ==
    IF history = <<>> THEN 0
    ELSE (IF IsDated(history[1].record_date) /\ history[1].record_date[2] = m
          THEN history[1].record_date[3] ELSE 0)
         + DaySum(Tail(history), m)

\* d is the mean, cut to an integer, of the days of the records of month m,
\* or 15 when there are none
IsTypicalDay(d, m, history) ==
    IF DatedIn(history, m) = {} THEN d = 15
    ELSE /\ Cardinality(DatedIn(history, m)) * d <= DaySum(history, m)
         /\ DaySum(history, m) < Cardinality(DatedIn(history, m)) * (d + 1)

\* C17: in the quarterly strategy, a slot of a quarter's history and a future
\* year for which the site gives no forecast gets a row dated (year, m, d)
\* after clamping, with m a month of greatest frequency among the history's
\* records (the current month if none has a month) and d the truncated mean
\* of the days of the records of month m (15 if there are none).
C17_TypicalMonthAndDay ==
    pc = "done" =>
        \A t \in Range(GroupKeys(clean_df)) :
            RowsOf(t, QUARTERLY) # <<>> =>
                \A entry \in Range(TickerQuarters(Group(Df, t))), y \in 1..years :
                    SiteRows(t, CurrentYear + y, entry.key) = {}
                    => \E m \in 1..12 :
                          /\ IsTypicalMonth(m, entry.rows)
                          /\ \E d \in 1..31 :
                                /\ IsTypicalDay(d, m, entry.rows)
                                /\ \E i \in 1..Len(forecast_data) :
                                      /\ forecast_data[i].ticker = t
                                      /\ forecast_data[i].forecast_strategy = QUARTERLY
                                      /\ forecast_data[i].quarter = entry.key
                                      /\ forecast_data[i].year = CurrentYear + y
                                      /\ forecast_data[i].record_date =
                                             ClampedDate(CurrentYear + y, m, d)

\* the quarterly strategy has dated a quarter whose records of the typical
\* month have days with a mean that is not an integer
C17_Witness ==
    /\ pc = "done"
    /\ years >= 1
    /\ \E t \in Range(GroupKeys(clean_df)) :
          /\ RowsOf(t, QUARTERLY) # <<>>
          /\ \E e \in 1..Len(TickerQuarters(Group(Df, t))) :
                LET h == TickerQuarters(Group(Df, t))[e].rows
                IN  /\ Len(h) = 2
                    /\ h[1].month = h[2].month
                    /\ (h[1].record_date[3] + h[2].record_date[3]) % 2 = 1

\* the quarterly strategy has dated a history without any date at the 15th
\* of the current month
C17_WitnessNoMonth ==
    /\ pc = "done"
    /\ \E i \in 1..Len(forecast_data) :
          /\ forecast_data[i].forecast_strategy = QUARTERLY
          /\ forecast_data[i].record_date =
                 <<forecast_data[i].year, CurrentMonth, 15>>
          /\ \E e \in 1..Len(TickerQuarters(Group(Df, forecast_data[i].ticker))) :
                LET h == TickerQuarters(Group(Df, forecast_data[i].ticker))[e].rows
                IN  \A k \in 1..Len(h) : ~IsDated(h[k].record_date)

\* the quarterly strategy has dated a quarter two months of which are equally
\* frequent
C17_WitnessTie ==
    /\ pc = "done"
    /\ years >= 1
    /\ \E t \in Range(GroupKeys(clean_df)) :
          /\ RowsOf(t, QUARTERLY) # <<>>
          /\ \E e \in 1..Len(TickerQuarters(Group(Df, t))) :
                LET h == TickerQuarters(Group(Df, t))[e].rows
                IN  /\ Len(h) = 2
                    /\ IsDated(h[1].record_date) /\ IsDated(h[2].record_date)
                    /\ h[1].month # h[2].month

----------------------------------------------------------------------------
(* The payment-dates strategy *)

\* the dated ACTUAL rows of a ticker that fall on one (month, day)
ActualOnDay(ticker, m, d) ==
    SelectSeq(clean_df, LAMBDA r : /\ r.ticker = ticker
                                   /\ r.forecast_type = 0
                                   /\ IsDated(r.record_date)
                                   /\ r.record_date[2] = m
                                   /\ r.record_date[3] = d)

\* the (month, day) groups of a ticker
Anniversaries(ticker) ==
    {<<clean_df[i].record_date[2], clean_df[i].record_date[3]>> :
        i \in {k \in 1..Len(clean_df) :
                  /\ clean_df[k].ticker = ticker
                  /\ clean_df[k].forecast_type = 0
                  /\ IsDated(clean_df[k].record_date)}}

\* C18: rows labelled payment-dates go only to a security that has passed
\* the activity gate, got no row from the quarterly strategy and has a
\* (month, day) group; such a security then has, for every (month, day)
\* group and every future year, one row labelled payment-dates with the mean
\* of the group's amounts, rounded to two decimals, dated (year, month, day)
\* after clamping, and no other rows.
C18_PaymentDates ==
    pc = "done" =>
        \A t \in Range(GroupKeys(clean_df)) :
            RowsOf(t, DATES) # <<>> =>
                /\ HasRecentActual(t)
                /\ RowsOf(t, QUARTERLY) = <<>>
                /\ Anniversaries(t) # {}
                /\ ForecastsOf(t) = RowsOf(t, DATES)
                /\ Len(RowsOf(t, DATES)) = Cardinality(Anniversaries(t)) * years
                /\ \A md \in Anniversaries(t), y \in 1..years :
                      \E i \in 1..Len(forecast_data) :
                          /\ forecast_data[i].ticker = t
                          /\ forecast_data[i].forecast_strategy = DATES
                          /\ forecast_data[i].year = CurrentYear + y
                          /\ forecast_data[i].record_date =
                                 ClampedDate(CurrentYear + y, md[1], md[2])
                          /\ IsRoundedMean(
                                 forecast_data[i].dividend_value,
                                 SumAmounts(ActualOnDay(t, md[1], md[2])),
                                 Len(ActualOnDay(t, md[1], md[2])))

\* the payment-dates strategy has served a security with a (month, day)
\* group of two payments of different amounts and another group
C18_Witness ==
    /\ pc = "done"
    /\ years >= 2
    /\ \E t \in Range(GroupKeys(clean_df)) :
          /\ RowsOf(t, DATES) # <<>>
          /\ Cardinality(Anniversaries(t)) >= 2
          /\ \E md \in Anniversaries(t) :
                /\ Len(ActualOnDay(t, md[1], md[2])) = 2
                /\ ActualOnDay(t, md[1], md[2])[1].dividend_value
                   # ActualOnDay(t, md[1], md[2])[2].dividend_value

\* the payment-dates strategy has clamped the anniversary Feb 29
C18_WitnessClamped ==
    /\ pc = "done"
    /\ \E i \in 1..Len(forecast_data) :
          /\ forecast_data[i].forecast_strategy = DATES
          /\ forecast_data[i].record_date = <<CurrentYear + 1, 2, 28>>

----------------------------------------------------------------------------
(* The annual strategy *)

\* the ACTUAL rows of a ticker
ActualOf(ticker) ==
    SelectSeq(clean_df, LAMBDA r : r.ticker = ticker /\ r.forecast_type = 0)

\* C19: rows labelled annual-data go only to a security that has passed the
\* activity gate, got no row from the quarterly and the payment-dates
\* strategy and has an ACTUAL payment; such a security then has exactly four
\* rows per future year, for quarters 1 to 4 at Mar 15, Jun 15, Sep 15 and
\* Dec 15, each with a quarter of the mean of all its ACTUAL amounts, rounded
\* to two decimals, and no other rows.
C19_AnnualAverage ==
    pc = "done" =>
        \A t \in Range(GroupKeys(clean_df)) :
            RowsOf(t, ANNUAL) # <<>> =>
                /\ HasRecentActual(t)
                /\ RowsOf(t, QUARTERLY) = <<>>
                /\ RowsOf(t, DATES) = <<>>
                /\ ForecastsOf(t) = RowsOf(t, ANNUAL)
                /\ Len(RowsOf(t, ANNUAL)) = 4 * years
                /\ \A q \in 1..4, y \in 1..years :
                      \E i \in 1..Len(forecast_data) :
                          /\ forecast_data[i].ticker = t
                          /\ forecast_data[i].forecast_strategy = ANNUAL
                          /\ forecast_data[i].quarter = q
                          /\ forecast_data[i].year = CurrentYear + y
                          /\ forecast_data[i].record_date =
                                 <<CurrentYear + y, 3 * q, 15>>
                          /\ IsRoundedMean(forecast_data[i].dividend_value,
                                           SumAmounts(ActualOf(t)),
                                           4 * Len(ActualOf(t)))

\* the annual strategy has served a security with two ACTUAL payments of
\* different amounts
C19_Witness ==
    /\ pc = "done"
    /\ years >= 2
    /\ \E t \in Range(GroupKeys(clean_df)) :
          /\ RowsOf(t, ANNUAL) # <<>>
          /\ Len(ActualOf(t)) = 2
          /\ ActualOf(t)[1].dividend_value # ActualOf(t)[2].dividend_value

----------------------------------------------------------------------------
(* The forecasting horizon *)

\* C20: every forecast row has its year in CurrentYear + 1 .. CurrentYear +
\* years; every security that got forecast rows has one for each year of
\* that range; with years = 0 there is no forecast row at all.
C20_YearsCovered ==
    /\ \A i \in 1..Len(forecast_data) :
          forecast_data[i].year \in (CurrentYear + 1)..(CurrentYear + years)
    /\ (years = 0 => forecast_data = <<>>)
    /\ pc = "done" =>
          \A t \in Range(GroupKeys(clean_df)) :
              ForecastsOf(t) # <<>> =>
                  \A y \in 1..years :
                      \E i \in 1..Len(forecast_data) :
                          /\ forecast_data[i].ticker = t
                          /\ forecast_data[i].year = CurrentYear + y

\* the part of C20 that holds of every run: the years of the forecast rows
\* lie in the range, and years = 0 gives no forecast row
C20_YearsInRange ==
    /\ \A i \in 1..Len(forecast_data) :
          forecast_data[i].year \in (CurrentYear + 1)..(CurrentYear + years)
    /\ (years = 0 => forecast_data = <<>>)

----------------------------------------------------------------------------
(* Deduplication *)

\* the frame clean_data builds from the extracted rows before it drops the
\* duplicates
CleanInput == WithDerivedColumns(DataFrame(detailed_dividends))

\* the rows of a frame that no earlier row shares its (ticker, formatted
\* date, amount) with
FirstOfKey(src) ==
    {i \in 1..Len(src) :
        \A j \in 1..(i - 1) :
            <<src[j].ticker, src[j].record_date_str, src[j].dividend_value>>
            # <<src[i].ticker, src[i].record_date_str, src[i].dividend_value>>}

\* C21: after clean_data no two rows of clean_df share (ticker, formatted
\* record date, amount); the rows of clean_df are exactly the extracted rows
\* that are the first of their triple in input order, and they stand in the
\* order in which they were extracted.
C21_DedupKeepsFirst ==
    pc = "forecast" =>
        /\ \A i, j \in 1..Len(clean_df) :
              i < j =>
                  <<clean_df[i].ticker, clean_df[i].record_date_str,
                    clean_df[i].dividend_value>>
                  # <<clean_df[j].ticker, clean_df[j].record_date_str,
                      clean_df[j].dividend_value>>
        /\ Len(clean_df) = Cardinality(FirstOfKey(CleanInput))
        /\ \A i \in FirstOfKey(CleanInput) :
              clean_df[Cardinality({j \in FirstOfKey(CleanInput) : j <= i})]
              = CleanInput[i]

\* clean_data has dropped a row that repeats the triple of an earlier row
\* and differs from it in year and quarter, and has kept several rows
C21_Witness ==
    /\ pc = "forecast"
    /\ Len(clean_df) >= 2
    /\ \E i, j \in 1..Len(CleanInput) :
          /\ i < j
          /\ CleanInput[i].ticker = CleanInput[j].ticker
          /\ CleanInput[i].record_date_str = CleanInput[j].record_date_str
          /\ CleanInput[i].dividend_value = CleanInput[j].dividend_value
          /\ CleanInput[i].year # CleanInput[j].year
          /\ Len(clean_df) < Len(CleanInput)

----------------------------------------------------------------------------
(* The dates the strategies build *)

\* the row's date is the date of a SITE_FORECAST row of its ticker, year and
\* quarter
CopiedFromSite(f) ==
    \E k \in SiteRows(f.ticker, f.year, f.quarter) :
        clean_df[k].record_date = f.record_date

\* the date construction is asked for a date that does not exist and is
\* served by neither of its first two branches
PreviousMonthFallback(y, m, d) ==
    /\ ~ValidDate(y, m, d)
    /\ ~(m = 2 /\ d > 28)
    /\ ~(d > 30 /\ m \in {4, 6, 9, 11})

\* C22: the last branch of the date construction (the last day of the month
\* before) is never taken for a date a strategy builds.  Every forecast row
\* whose date is not copied from a forecast of the site is dated in the year
\* of its year field and in the month the strategy asked for: a typical month
\* of the quarter's history for the quarterly strategy, the month of a
\* (month, day) group for the payment-dates strategy, month 3, 6, 9 or 12 of
\* the row's quarter for the branches with fixed dates; and no slot of the
\* quarterly or the payment-dates strategy asks for a date that only the last
\* branch serves.
C22_NoPreviousMonthFallback ==
    pc = "done" =>
        /\ \A i \in 1..Len(forecast_data) :
              LET f == forecast_data[i]
              IN  IF f.forecast_strategy = QUARTERLY
                  THEN ~CopiedFromSite(f) =>
                         /\ f.record_date[1] = f.year
                         /\ \E entry \in Range(TickerQuarters(Group(Df, f.ticker))) :
                               /\ entry.key = f.quarter
                               /\ IsTypicalMonth(f.record_date[2], entry.rows)
                  ELSE IF f.forecast_strategy = DATES
                  THEN /\ f.record_date[1] = f.year
                       /\ \E md \in Anniversaries(f.ticker) :
                             f.record_date[2] = md[1]
                  ELSE /\ f.record_date[1] = f.year
                       /\ f.quarter \in 1..4
                       /\ f.record_date[2] = 3 * f.quarter
        /\ \A t \in Range(GroupKeys(clean_df)), y \in 1..years :
              /\ \A entry \in Range(TickerQuarters(Group(Df, t))) :
                    ~DateRaises(TypicalMonth(entry.rows), TypicalDay(entry.rows))
                    => ~PreviousMonthFallback(CurrentYear + y,
                                              TypicalMonth(entry.rows),
                                              TypicalDay(entry.rows))
              /\ \A md \in Anniversaries(t) :
                    ~PreviousMonthFallback(CurrentYear + y, md[1], md[2])

\* the quarterly strategy has built, without a forecast of the site, a date
\* for a typical month and day that do not exist in the future year (Feb 29)
C22_Witness ==
    /\ pc = "done"
    /\ \E i \in 1..Len(forecast_data) :
          LET f == forecast_data[i]
          IN  /\ f.forecast_strategy = QUARTERLY
              /\ ~CopiedFromSite(f)
              /\ \E entry \in Range(TickerQuarters(Group(Df, f.ticker))) :
                    /\ entry.key = f.quarter
                    /\ ~ValidDate(f.year, TypicalMonth(entry.rows),
                                  TypicalDay(entry.rows))
                    /\ f.record_date[2] = TypicalMonth(entry.rows)

\* the payment-dates strategy has built a date for a (month, day) group that
\* does not exist in the future year
C22_WitnessDates ==
    /\ pc = "done"
    /\ \E i \in 1..Len(forecast_data) :
          /\ forecast_data[i].forecast_strategy = DATES
          /\ \E md \in Anniversaries(forecast_data[i].ticker) :
                /\ ~ValidDate(forecast_data[i].year, md[1], md[2])
                /\ forecast_data[i].record_date[2] = md[1]

----------------------------------------------------------------------------
(* The emergency label *)

\* C23: a security that passes the activity gate has an ACTUAL payment, so
\* the annual strategy, when it is reached without a row from the strategies
\* before it, is eligible and appends its 4 * years rows; hence with
\* years >= 1 the emergency strategy is never reached without rows, appends
\* nothing, and no forecast row carries the emergency label.
C23_EmergencyNeverLabels ==
    /\ [](years >= 1 =>
            \A i \in 1..Len(forecast_data) :
                forecast_data[i].forecast_strategy # EMERGENCY)
    /\ [][ /\ (pc = "gate" /\ pc' = "quarterly"
               => ActualOf(CurrentTicker) # <<>>)
           /\ (pc = "annual" /\ ticker_forecast_count = 0
               => /\ Len(forecast_data') = Len(forecast_data) + 4 * years
                  /\ ticker_forecast_count' = 4 * years
                  /\ \A i \in (Len(forecast_data) + 1)..Len(forecast_data') :
                        forecast_data'[i].forecast_strategy = ANNUAL)
           /\ (pc = "emergency" /\ years >= 1
               => /\ ticker_forecast_count > 0
                  /\ forecast_data' = forecast_data)
         ]_vars

\* the emergency strategy is reached, with years >= 1, by a security whose
\* every data point of the payment-dates strategy failed and that got its rows
\* from the annual strategy
C23_Witness ==
    /\ pc = "emergency"
    /\ years >= 1
    /\ ForecastsOf(CurrentTicker) # <<>>
    /\ ForecastsOf(CurrentTicker) = RowsOf(CurrentTicker, ANNUAL)
    /\ \E g \in 1..Len(AnnualPaymentDates(CurrentGroup)) :
          DatesSlotFails(AnnualPaymentDates(CurrentGroup)[g])

----------------------------------------------------------------------------
(* One strategy per security *)

\* the tickers of clean_df
CleanTickers == {clean_df[i].ticker : i \in 1..Len(clean_df)}

\* C24: all forecast rows of one ticker carry one and the same strategy
\* label, and when forecast_dividends has returned from a run with
\* years >= 1 every ticker of clean_df has at least one forecast row, from
\* the inactive branch or from a strategy.
C24_OneLabelPerTicker ==
    /\ \A i, j \in 1..Len(forecast_data) :
          forecast_data[i].ticker = forecast_data[j].ticker
          => forecast_data[i].forecast_strategy = forecast_data[j].forecast_strategy
    /\ (pc = "done" /\ years >= 1) =>
          \A t \in CleanTickers :
              \E i \in 1..Len(forecast_data) : forecast_data[i].ticker = t

\* a run with years >= 1 has ended for two tickers, one served by the
\* inactive branch and one by a strategy, each with several rows
C24_Witness ==
    /\ pc = "done"
    /\ years >= 1
    /\ Cardinality(CleanTickers) = 2
    /\ \E t, u \in CleanTickers :
          /\ Len(RowsOf(t, INACTIVE)) >= 2
          /\ Len(ForecastsOf(u)) >= 2
          /\ RowsOf(u, INACTIVE) = <<>>

----------------------------------------------------------------------------
(* The pipeline of main *)

\* C25: whenever save_to_excel or save_to_json is about to read result_df,
\* forecast_dividends has assigned it, also in the run in which nothing was
\* extracted and forecast_dividends returned None.
C25_ResultAssignedBeforeSave ==
    /\ (pc \in {"done", "save_to_json"} => result_df # Unassigned)
    /\ pc # "AttributeError"

\* the part of C25 that holds of every run: when forecast_dividends has
\* returned a frame, result_df is assigned and both saves run
C25_AssignedWhenFrameReturned ==
    (pc \in {"done", "save_to_json", "exit"} /\ ret = "result_df")
    => result_df # Unassigned /\ result_df # <<>>

----------------------------------------------------------------------------
(* Ticker isolation *)

\* the rows the gate and the chain of strategies append for one group
ChainForecasts(ticker, group, n, hy) ==
    IF IsInactive(group, hy) THEN InactiveForecasts(ticker, n)
    ELSE LET q == IF HasQuarterlyData(TickerQuarters(group), AllPayments(group))
                  THEN QuarterlyForecasts(ticker, group, n) ELSE <<>>
             d == IF DatesEligible(Len(q), AnnualPaymentDates(group))
                  THEN DatesForecasts(ticker, group, n) ELSE <<>>
             a == IF AnnualEligible(Len(q) + Len(d), AllPayments(group))
                  THEN AnnualForecasts(ticker, group, n) ELSE <<>>
             e == IF EmergencyEligible(Len(q) + Len(d) + Len(a))
                  THEN EmergencyForecasts(ticker, n) ELSE <<>>
         IN  q \o d \o a \o e

\* the group of a ticker in the run whose extracted rows are the rows of this
\* ticker alone
AloneGroup(ticker) ==
    Group(WithStrategyColumn(CleanDataFrame(
              SelectSeq(detailed_dividends, LAMBDA r : r.ticker = ticker))),
          ticker)

\* the forecast rows of every ticker are the rows the gate and the chain give
\* for its group of this run
ChainOfThisRun ==
    pc = "done" =>
        \A t \in CleanTickers :
            ForecastsOf(t) = ChainForecasts(t, Group(Df, t), years, history_years)

\* C26: the forecast rows of a ticker are the same as in the run, with the
\* same years and history_years, from which the rows of every other ticker
\* have been removed.
C26_TickerIsolation ==
    pc = "done" =>
        \A t \in CleanTickers :
            ForecastsOf(t) = ChainForecasts(t, AloneGroup(t), years, history_years)

----------------------------------------------------------------------------
(* How many rows the quarterly strategy emits *)

\* the quarters for which the ticker has an ACTUAL row
QuartersWithHistory(ticker) ==
    {q \in 1..4 : ActualOfQuarter(ticker, q) # <<>>}

\* no data point of the quarterly strategy fails for the ticker
NoQuarterlySlotFails(ticker) ==
    \A e \in 1..Len(TickerQuarters(Group(Df, ticker))), y \in 1..years :
        ~QuarterlySlotFails(Group(Df, ticker),
                            TickerQuarters(Group(Df, ticker))[e],
                            CurrentYear + y)

\* C27: a security served by the quarterly strategy, none of whose data
\* points failed, has a row labelled quarterly-data for every quarter with
\* an ACTUAL row (also a quarter with a single one) and every future year,
\* and the number of its rows labelled quarterly-data is the number of
\* quarters with an ACTUAL row times years.
C27_QuarterlyRowCount ==
    pc = "done" =>
        \A t \in CleanTickers :
            (RowsOf(t, QUARTERLY) # <<>> /\ NoQuarterlySlotFails(t))
            => /\ \A q \in QuartersWithHistory(t), y \in 1..years :
                     \E i \in 1..Len(forecast_data) :
                         /\ forecast_data[i].ticker = t
                         /\ forecast_data[i].forecast_strategy = QUARTERLY
                         /\ forecast_data[i].quarter = q
                         /\ forecast_data[i].year = CurrentYear + y
               /\ Len(RowsOf(t, QUARTERLY))
                  = Cardinality(QuartersWithHistory(t)) * years

\* the part of C27 that holds of every run: every quarter with an ACTUAL
\* row, also a quarter with a single one, gets a row for every future year
\* whose data point does not fail
C27_EveryQuarterServed ==
    pc = "done" =>
        \A t \in CleanTickers :
            (RowsOf(t, QUARTERLY) # <<>> /\ NoQuarterlySlotFails(t))
            => \A q \in QuartersWithHistory(t), y \in 1..years :
                   \E i \in 1..Len(forecast_data) :
                       /\ forecast_data[i].ticker = t
                       /\ forecast_data[i].forecast_strategy = QUARTERLY
                       /\ forecast_data[i].quarter = q
                       /\ forecast_data[i].year = CurrentYear + y

\* the quarterly strategy has served, without a failure, a security with a
\* quarter of a single ACTUAL row
C27_WitnessSingle ==
    /\ pc = "done"
    /\ years >= 1
    /\ \E t \in CleanTickers :
          /\ RowsOf(t, QUARTERLY) # <<>>
          /\ NoQuarterlySlotFails(t)
          /\ \E q \in 1..4 : Len(ActualOfQuarter(t, q)) = 1

----------------------------------------------------------------------------
(* Forecasts of the site outside the quarterly strategy *)

\* the date and the amount of every row, in order
DatesAndAmounts(rows) ==
    [i \in 1..Len(rows) |-> <<rows[i].record_date, rows[i].dividend_value>>]

\* the group of a ticker in the run whose extracted rows are those of this
\* run without the SITE_FORECAST rows of the ticker
WithoutSiteGroup(ticker) ==
    Group(WithStrategyColumn(CleanDataFrame(
              SelectSeq(detailed_dividends,
                        LAMBDA r : ~(r.ticker = ticker /\ r.forecast_type = 1)))),
          ticker)

\* the extracted rows that clean_data keeps, as they were extracted
KeptRows ==
    [k \in 1..Cardinality(FirstOfKey(CleanInput)) |->
        detailed_dividends[
            CHOOSE i \in FirstOfKey(CleanInput) :
                Cardinality({j \in FirstOfKey(CleanInput) : j <= i}) = k]]

\* the group of a ticker in the run whose extracted rows are the rows this
\* run keeps without the SITE_FORECAST rows of the ticker
KeptWithoutSiteGroup(ticker) ==
    Group(WithStrategyColumn(CleanDataFrame(
              SelectSeq(KeptRows,
                        LAMBDA r : ~(r.ticker = ticker /\ r.forecast_type = 1)))),
          ticker)

\* C28: a ticker whose forecast rows do not come from the quarterly strategy
\* has forecast rows of the same number, dates and amounts as in the run,
\* with the same years and history_years, from which its SITE_FORECAST rows
\* have been removed.
C28_SiteRowsOnlyQuarterly ==
    pc = "done" =>
        \A t \in CleanTickers :
            RowsOf(t, QUARTERLY) = <<>>
            => DatesAndAmounts(ForecastsOf(t))
               = DatesAndAmounts(ChainForecasts(t, WithoutSiteGroup(t),
                                                years, history_years))

\* the part of C28 that holds of every run: the same with the SITE_FORECAST
\* rows removed from the rows clean_data has kept
C28_SiteRowsAfterDedup ==
    pc = "done" =>
        \A t \in CleanTickers :
            RowsOf(t, QUARTERLY) = <<>>
            => DatesAndAmounts(ForecastsOf(t))
               = DatesAndAmounts(ChainForecasts(t, KeptWithoutSiteGroup(t),
                                                years, history_years))

\* a ticker with ACTUAL rows and a SITE_FORECAST row that has a year and a
\* quarter has got its rows from the payment-dates strategy
C28_WitnessDates ==
    /\ pc = "done"
    /\ years >= 1
    /\ \E t \in CleanTickers :
          /\ RowsOf(t, DATES) # <<>>
          /\ \E i \in 1..Len(clean_df) :
                /\ clean_df[i].ticker = t
                /\ clean_df[i].forecast_type = 1
                /\ clean_df[i].quarter \in 1..4
                /\ clean_df[i].year > CurrentYear

----------------------------------------------------------------------------
(* Deduplication and the year *)

\* the rows of clean_df that are one of the two extracted rows i and j
KeptOf(i, j) ==
    {a \in 1..Len(clean_df) : clean_df[a] \in {CleanInput[i], CleanInput[j]}}

\* C29: two extracted rows of one ticker whose year fields differ are both
\* rows of clean_df after clean_data, also when the rows have no record
\* date. The pairs are those in which no third row stands before either row
\* with the same (ticker, formatted date, amount), so that a row of the pair
\* can only be dropped on account of the other.
C29_DifferentYearsSurvive ==
    pc = "forecast" =>
        \A i, j \in 1..Len(detailed_dividends) :
            (/\ i < j
             /\ detailed_dividends[i].ticker = detailed_dividends[j].ticker
             /\ detailed_dividends[i].year # detailed_dividends[j].year
             /\ i \in FirstOfKey(CleanInput)
             /\ \A k \in 1..(j - 1) :
                   k # i => DedupKey(CleanInput[k]) # DedupKey(CleanInput[j]))
            => Cardinality(KeptOf(i, j)) = 2

\* the part of C29 that holds of every run: such a pair loses a row only
\* when the two rows agree in record date (or both have none) and in amount
C29_CollapseNeedsSameDateAndAmount ==
    pc = "forecast" =>
        \A i, j \in 1..Len(detailed_dividends) :
            (/\ i < j
             /\ detailed_dividends[i].ticker = detailed_dividends[j].ticker
             /\ detailed_dividends[i].year # detailed_dividends[j].year
             /\ i \in FirstOfKey(CleanInput)
             /\ \A k \in 1..(j - 1) :
                   k # i => DedupKey(CleanInput[k]) # DedupKey(CleanInput[j])
             /\ \/ detailed_dividends[i].record_date
                   # detailed_dividends[j].record_date
                \/ detailed_dividends[i].dividend_value
                   # detailed_dividends[j].dividend_value)
            => Cardinality(KeptOf(i, j)) = 2

----------------------------------------------------------------------------
(* Records without a quarter *)

\* the entries of ticker_quarters that stand for one of the four quarters
NumberedQuarters(entries) == SelectSeq(entries, LAMBDA e : e.key \in 1..4)

\* C30: an ACTUAL row without a quarter is in no list of ticker_quarters,
\* so every entry of ticker_quarters stands for one of the quarters 1..4
\* and every row labelled quarterly-data is the forecast of one of them.
C30_QuarterlessOutsideQuarterLists ==
    pc = "done" =>
        \A t \in CleanTickers :
            /\ \A e \in 1..Len(TickerQuarters(Group(Df, t))) :
                  TickerQuarters(Group(Df, t))[e].key \in 1..4
            /\ \A i \in 1..Len(forecast_data) :
                  (/\ forecast_data[i].ticker = t
                   /\ forecast_data[i].forecast_strategy = QUARTERLY)
                  => forecast_data[i].quarter \in 1..4

\* the part of C30 that holds of every run: the rows without a quarter do
\* not decide whether the quarterly strategy is eligible
C30_QuarterlessNeverMakesEligible ==
    pc = "done" =>
        \A t \in CleanTickers :
            HasQuarterlyData(TickerQuarters(Group(Df, t)),
                             AllPayments(Group(Df, t)))
            <=> HasQuarterlyData(NumberedQuarters(TickerQuarters(Group(Df, t))),
                                 AllPayments(Group(Df, t)))

\* and when no extracted row has a quarter, the column keeps its Nones and
\* no row enters ticker_quarters
C30_AllQuarterlessStayOutside ==
    pc = "done" =>
        ((\A i \in 1..Len(clean_df) : clean_df[i].quarter = None)
         => \A t \in CleanTickers : TickerQuarters(Group(Df, t)) = <<>>)

====
